---------------------------- MODULE Spec2Model ----------------------------
(***************************************************************************)
(* A model of libagilispiezo: the AgilisPiezo session (agilispiezo.cpp)    *)
(* driving the Serial transport (serial.cpp).                              *)
(*                                                                         *)
(* Text is a sequence of one-character strings; CR and LF stand for the    *)
(* two bytes of the delimiter "\r\n".                                      *)
(*                                                                         *)
(* Time is counted in ticks of 100 ms (the settle delay of                 *)
(* Serial::Connect is one tick).  The two stopwatches of the model         *)
(* (elapsed: since cmd_term_timer_.Start(); sinceTx: since the last byte   *)
(* put on the wire) saturate at MaxTerm, the largest interval a caller     *)
(* sets, which keeps every comparison with cmd_term_ exact.                *)
(*                                                                         *)
(* Spec has NThreads threads share one session and its deferred            *)
(* position-measurement tasks; SpecOps has one thread make the command     *)
(* operations, with valid and invalid arguments.  A call that returns      *)
(* leaves its result in res for the one step in which the caller takes it. *)
(* SpecCall follows one call, SpecCfg a connected session whose interval   *)
(* is set, SpecLog the logging, SpecMeasure one caller's position          *)
(* measurements (with fairness), SpecParse the parse of the text a read    *)
(* returned.                                                               *)
(***************************************************************************)
EXTENDS Integers, Sequences, FiniteSets

(* ------------------------------ bounds -------------------------------- *)

\* callers of the concurrent specification are threads 1..NThreads
NThreads == 2
\* deferred position-measurement tasks that can be alive at once
MaxTasks == 2
\* std::future<int> objects the callers own
MaxFuts == 1
\* largest minimum inter-command interval a caller sets, in ticks
MaxTerm == 1
\* lines the operating system buffers for the port before they are read
MaxRx == 1
\* the calls of __Log followed
MaxLog == 3

(* ----------------------------- constants ------------------------------ *)

\* sleep_for(100 ms) before the handshake probe, in ticks
SettleDelay == 1
\* default of cmd_term_, in ticks
DefaultCmdTerm == 1
\* std::string::npos
Npos == -1

Threads == 1 .. NThreads
Tasks == 1 .. MaxTasks
Futs == 1 .. MaxFuts
NoTask == 0
NoOne == 0
\* a deferred task is the reading context NThreads + d
TaskCtx(d) == NThreads + d
Ctxs == 1 .. (NThreads + MaxTasks)

(* -------------------------------- text -------------------------------- *)

CR == "CR"
LF == "LF"
CRLF == <<CR, LF>>
DigitChars == <<"0", "1", "2", "3", "4", "5", "6", "7", "8", "9">>

IsDigit(c) == \E i \in 1 .. 10 : DigitChars[i] = c
DigitVal(c) == (CHOOSE i \in 1 .. 10 : DigitChars[i] = c) - 1
\* std::isspace on the bytes that occur
IsSpace(c) == c \in {CR, LF, " "}

RECURSIVE Dec(_)
Dec(n) == IF n < 10 THEN <<DigitChars[n + 1]>>
          ELSE Dec(n \div 10) \o <<DigitChars[(n % 10) + 1]>>

\* std::to_string(int)
to_string(n) == IF n < 0 THEN <<"-">> \o Dec(-n) ELSE Dec(n)

\* whether pat occurs in buf at 0-based position i
MatchAt(buf, pat, i) ==
  /\ i + Len(pat) <= Len(buf)
  /\ \A k \in 1 .. Len(pat) : buf[i + k] = pat[k]

\* std::string::find: the first 0-based position of pat, or npos
Find(buf, pat) ==
  LET hits == {i \in 0 .. Len(buf) : MatchAt(buf, pat, i)}
  IN IF hits = {} THEN Npos
     ELSE CHOOSE i \in hits : \A j \in hits : i <= j

\* std::string::substr(pos, len) for pos <= size: len is clamped to the rest.
\* A len below zero stands for a size_t difference that wrapped around: it
\* exceeds every string size, so the rest of the string is taken.
Substr(buf, pos, len) ==
  LET rest == Len(buf) - pos
      n == IF len < 0 \/ len > rest THEN rest ELSE len
  IN SubSeq(buf, pos + 1, pos + n)

RECURSIVE SkipSpace(_)
SkipSpace(s) == IF s # <<>> /\ IsSpace(Head(s)) THEN SkipSpace(Tail(s)) ELSE s

RECURSIVE DigitsVal(_, _)
\* value of the longest prefix of digits of s, continuing from acc
DigitsVal(s, acc) ==
  IF s # <<>> /\ IsDigit(Head(s))
  THEN DigitsVal(Tail(s), acc * 10 + DigitVal(Head(s)))
  ELSE acc

\* std::stoi: leading white space, an optional sign, then at least one digit;
\* what follows the digits is ignored.  ok = FALSE is std::invalid_argument.
Stoi(s) ==
  LET t == SkipSpace(s)
      neg == t # <<>> /\ Head(t) = "-"
      u == IF t # <<>> /\ Head(t) \in {"-", "+"} THEN Tail(t) ELSE t
  IN IF u # <<>> /\ IsDigit(Head(u))
     THEN [ok |-> TRUE, val |-> IF neg THEN -DigitsVal(u, 0) ELSE DigitsVal(u, 0)]
     ELSE [ok |-> FALSE, val |-> 0]

\* a parse that starts at the echo and not after it
GetIntegerFromEcho(buf, command) ==
  LET begin == Find(buf, command)
      end == Find(buf, CRLF)
  IN IF begin = Npos \/ end = Npos THEN [ok |-> FALSE, val |-> 0]
     ELSE Stoi(Substr(buf, begin, end - begin))

\* AgilisPiezo::__GetIntegerFromReturnValue: [ok, val]; val is stored to
\* *out only when ok
GetIntegerFromReturnValue(buf, command) ==
  LET begin == Find(buf, command)
      end == Find(buf, CRLF)
  IN IF begin = Npos THEN [ok |-> FALSE, val |-> 0]
     ELSE IF end = Npos THEN [ok |-> FALSE, val |-> 0]
     ELSE Stoi(Substr(buf, begin + Len(command), end - (begin + Len(command))))

(* ------------------------- command frame tables ----------------------- *)

\* the per-axis command strings DL[axis], JA[axis], ...: "<axis><VERB>"
AxisCmd(verb, axis) == <<DigitChars[axis + 1]>> \o verb

DL(axis) == AxisCmd(<<"D", "L">>, axis)
JA(axis) == AxisCmd(<<"J", "A">>, axis)
MA(axis) == AxisCmd(<<"M", "A">>, axis)
MV(axis) == AxisCmd(<<"M", "V">>, axis)
PA(axis) == AxisCmd(<<"P", "A">>, axis)
PR(axis) == AxisCmd(<<"P", "R">>, axis)
ST(axis) == AxisCmd(<<"S", "T">>, axis)
SU(axis) == AxisCmd(<<"S", "U">>, axis)
TP(axis) == AxisCmd(<<"T", "P">>, axis)
TS(axis) == AxisCmd(<<"T", "S">>, axis)
ZP(axis) == AxisCmd(<<"Z", "P">>, axis)
PH == <<"P", "H">>
\* channel_table_[channel]
channel_table(channel) == to_string(channel)

(* ------------------------------- calls -------------------------------- *)

\* One call of a public operation: the operation and its arguments; i0 is
\* the value the caller's output integer holds when the call is made.
\* name is the port name of a connect call, f the future of a measurement.
MkCall(op, axis, sign, n, f, i0, name) ==
  [op |-> op, axis |-> axis, sign |-> sign, n |-> n, f |-> f, i0 |-> i0,
   name |-> name]

NoCall == MkCall("none", 0, TRUE, 0, 0, 0, "")

\* the operations that take an axis
AxisOps ==
  {"SetStepDelay", "GetStepDelay", "StartJogMotion", "GetJogMode",
   "MeasureCurrentPosition", "MoveToLimit", "AbsoluteMove", "RelativeMove",
   "StopMotion", "SetStepAmplitude", "GetStepAmplitudeSetting",
   "TellNumberOfSteps", "GetAxisStatus", "ZeroPosition"}

\* the operations that send a frame and read the reply under the lock
ReplyOps ==
  {"GetStepDelay", "GetJogMode", "TellLimitStatus", "GetStepAmplitudeSetting",
   "GetErrorOfPreviousCommand", "TellNumberOfSteps", "GetAxisStatus",
   "GetControllerFirmwareVersion", "GetChannel"}

\* the operations that only send a frame
SendOps ==
  {"SetStepDelay", "StartJogMotion", "SetToLocalMode", "SetToRemoteMode",
   "MoveToLimit", "AbsoluteMove", "RelativeMove", "ResetController",
   "StopMotion", "SetStepAmplitude", "ZeroPosition", "ChangeChannel"}

ConnectOps == {"ConnectDeviceUSB", "ConnectDeviceRS232"}

\* an axis check that lets axis 0 through
AxisOkFromZero(axis) == axis >= 0 /\ axis <= 2

\* the check "axis != 1 && axis != 2" every axis-addressed operation opens with
AxisOk(axis) == axis = 1 \/ axis = 2

\* SetStepAmplitude's check of the amplitude
AmplitudeOkTo51(amplitude) ==
  ~(amplitude = 0 \/ amplitude < -51 \/ amplitude > 51)

AmplitudeOk(amplitude) == ~(amplitude = 0 \/ amplitude < -50 \/ amplitude > 50)

\* ChangeChannel's check of the channel
ChannelOkTo5(channel) == ~(channel < 0 \/ channel > 5)

ChannelOk(channel) == ~(channel < 0 \/ channel > 4)

\* the validation a call passes before it takes the lock
Valid(c) ==
  /\ c.op \in AxisOps => AxisOk(c.axis)
  /\ c.op = "SetStepAmplitude" => AmplitudeOk(c.n)
  /\ c.op = "ChangeChannel" => ChannelOk(c.n)

\* no sign written
MinusNone(sign) == <<>>

\* (sign ? "" : "-")
Minus(sign) == IF sign THEN <<>> ELSE <<"-">>

\* a jog speed that keeps its sign whatever the flag
JogSpeedUnsigned(sign, jog_speed) == jog_speed

\* StartJogMotion: int speed = jog_speed; if (!sign) speed = -speed;
JogSpeed(sign, jog_speed) == IF sign THEN jog_speed ELSE -jog_speed

\* a query that asks for the positive direction whatever the flag
AmplitudeQueryPlain(sign) == <<"?">>

\* GetStepAmplitudeSetting: (sign ? "?" : "-?")
AmplitudeQuery(sign) == IF sign THEN <<"?">> ELSE <<"-", "?">>

\* the command string the operation hands to __SendCommand
Command(c) ==
  CASE c.op = "SetStepDelay" -> DL(c.axis) \o to_string(c.n)
    [] c.op = "GetStepDelay" -> DL(c.axis) \o <<"?">>
    [] c.op = "StartJogMotion" ->
         JA(c.axis) \o to_string(JogSpeed(c.sign, c.n))
    [] c.op = "GetJogMode" -> JA(c.axis) \o <<"?">>
    [] c.op = "MeasureCurrentPosition" -> MA(c.axis)
    [] c.op = "SetToLocalMode" -> <<"M", "L">>
    [] c.op = "SetToRemoteMode" -> <<"M", "R">>
    [] c.op = "MoveToLimit" -> MV(c.axis) \o Minus(c.sign) \o to_string(c.n)
    [] c.op = "AbsoluteMove" -> PA(c.axis) \o to_string(c.n)
    [] c.op = "TellLimitStatus" -> PH
    [] c.op = "RelativeMove" -> PR(c.axis) \o Minus(c.sign) \o to_string(c.n)
    [] c.op = "ResetController" -> <<"R", "S">>
    [] c.op = "StopMotion" -> ST(c.axis)
    [] c.op = "SetStepAmplitude" ->
         SU(c.axis) \o Minus(c.sign) \o to_string(c.n)
    [] c.op = "GetStepAmplitudeSetting" ->
         SU(c.axis) \o AmplitudeQuery(c.sign)
    [] c.op = "GetErrorOfPreviousCommand" -> <<"T", "E">>
    [] c.op = "TellNumberOfSteps" -> TP(c.axis)
    [] c.op = "GetAxisStatus" -> TS(c.axis)
    [] c.op = "GetControllerFirmwareVersion" -> <<"V", "E">>
    [] c.op = "ZeroPosition" -> ZP(c.axis)
    [] c.op = "ChangeChannel" -> <<"C", "C">> \o channel_table(c.n)
    [] c.op = "GetChannel" -> <<"C", "C", "?">>
    [] OTHER -> <<>>

\* the echo the operation looks for in the reply
Echo(c) ==
  CASE c.op = "GetStepDelay" -> DL(c.axis)
    [] c.op = "GetJogMode" -> JA(c.axis)
    [] c.op = "MeasureCurrentPosition" -> MA(c.axis)
    [] c.op = "TellLimitStatus" -> PH
    [] c.op = "GetStepAmplitudeSetting" -> SU(c.axis)
    [] c.op = "GetErrorOfPreviousCommand" -> <<"T", "E">>
    [] c.op = "TellNumberOfSteps" -> TP(c.axis)
    [] c.op = "GetAxisStatus" -> TS(c.axis)
    [] c.op = "GetChannel" -> <<"C", "C">>
    [] OTHER -> <<>>

\* the frame __SendCommand writes: command + "\r\n"
Frame(c) == Command(c) \o CRLF

\* the handshake probe ConnectDeviceUSB and ConnectDeviceRS232 pass to Connect
HandshakeSend == <<"V", "E">> \o CRLF

(* ------------------------------ outputs ------------------------------- *)

\* the caller's output variables as they are when the call is made
InitOut(c) ==
  [i |-> c.i0, s |-> TRUE, a1 |-> FALSE, a2 |-> FALSE, ver |-> <<"x">>]

\* values an int that was never assigned may hold (TellLimitStatus's v):
\* one for each case of the switch and one for none of them
UninitInts == 0 .. 4

\* a switch with the two flags exchanged
LimitFlagsSwapped(v, o) ==
  CASE v = 0 -> [o EXCEPT !.a1 = FALSE, !.a2 = FALSE]
    [] v = 1 -> [o EXCEPT !.a1 = FALSE, !.a2 = TRUE]
    [] v = 2 -> [o EXCEPT !.a1 = TRUE, !.a2 = FALSE]
    [] v = 3 -> [o EXCEPT !.a1 = TRUE, !.a2 = TRUE]
    [] OTHER -> o

\* TellLimitStatus's switch on the raw value
LimitFlags(v, o) ==
  CASE v = 0 -> [o EXCEPT !.a1 = FALSE, !.a2 = FALSE]
    [] v = 1 -> [o EXCEPT !.a1 = TRUE, !.a2 = FALSE]
    [] v = 2 -> [o EXCEPT !.a1 = FALSE, !.a2 = TRUE]
    [] v = 3 -> [o EXCEPT !.a1 = TRUE, !.a2 = TRUE]
    [] OTHER -> o

\* The outputs of a reply-expecting operation after __GetReturnValue left
\* buf (empty when ListenUntil failed) and the parse ran; u is the value of
\* an unassigned local.
Decode(c, o, got, buf, u) ==
  LET p == GetIntegerFromReturnValue(buf, Echo(c))
      oi == IF p.ok THEN [o EXCEPT !.i = p.val] ELSE o
  IN CASE c.op = "GetJogMode" ->
            IF oi.i < 0 THEN [oi EXCEPT !.s = FALSE, !.i = -oi.i]
            ELSE [oi EXCEPT !.s = TRUE]
       [] c.op = "GetStepAmplitudeSetting" ->
            IF oi.i < 0 THEN [oi EXCEPT !.i = -oi.i] ELSE oi
       [] c.op = "TellLimitStatus" ->
            LimitFlags(IF p.ok THEN p.val ELSE u, o)
       [] c.op = "GetControllerFirmwareVersion" ->
            LET v == IF got THEN buf ELSE <<>>
                end == Find(v, CRLF)
            IN [o EXCEPT !.ver = IF end # Npos THEN Substr(v, 0, end) ELSE v]
       [] OTHER -> oi

(* ------------------------------- logging ------------------------------ *)

\* enum LogLevel
LOG_DEBUG == 0
LOG_INFO == 1
LOG_WARNING == 2
LOG_ERROR == 3
LOG_NONE == 4
LogLevels == LOG_DEBUG .. LOG_NONE

\* a __Log that writes only what is above the threshold
LogWritesAbove(level, threshold) == level > threshold

\* __Log: whether the message is written, if (level >= log_level_)
LogWrites(level, threshold) == level >= threshold

\* the record of a call __Log(level, ...) made by from under threshold
LogCall(level, from, threshold) ==
  [level |-> level, from |-> from, th |-> threshold,
   out |-> LogWrites(level, threshold)]

(* ------------------------------- state -------------------------------- *)

VARIABLES
  port,            \* Serial::port_: NoPort (nullptr) or the name of the open port
  last_port_name,  \* AgilisPiezo::last_port_name_
  cmd_term,        \* AgilisPiezo::cmd_term_, in ticks
  elapsed,         \* cmd_term_timer_.ElapsedMilli(), in ticks, saturating
  sinceTx,         \* ticks since bytes were last put on the wire, saturating
  rx,              \* lines received for the open port and not yet read
  m,               \* AgilisPiezo::m_: the thread that holds it, or NoOne
  pc,              \* where each caller thread is in its call
  call,            \* the call each thread is making
  slp,             \* ticks each thread's sleep_for still has to run
  sent,            \* what __SendCommand returned to the call
  tx,              \* the writes the call has put on the wire
  nr,              \* the ListenUntil calls the call has made
  old,             \* the task whose shared state the call's future assignment releases
  rd,              \* per reading context: the thread ListenUntil runs its read on
  task,            \* the deferred position-measurement tasks
  fut,             \* the callers' std::future<int> objects: the task each refers to
  wire,            \* the last complete frame the controller received
  res,             \* the call that has just returned, with what it handed
                   \* back to its caller; NoRes when none has
  log_level,       \* AgilisPiezo::log_level_
  log,             \* the calls of __Log made, each with the threshold it
                   \* met and whether it was written to std::cout
  wireBy,          \* the reading context whose exchange, still open, wrote
                   \* the frame in wire; NoOne when there is none
  rxOf             \* for each line of rx, the reading context whose open
                   \* exchange wrote the frame it answers, or NoOne

vars ==
  <<port, last_port_name, cmd_term, elapsed, sinceTx, rx, m, pc, call, slp,
    sent, tx, nr, old, rd, task, fut, wire, res,
         log_level, log, wireBy, rxOf>>

NoPort == "nullptr"
PortNames == {"ttyUSB0"}

FreeTask == [st |-> "free", axis |-> 0, val |-> 0, by |-> NoOne]
NoRes == [t |-> NoOne]

Min(a, b) == IF a < b THEN a ELSE b
Max(a, b) == IF a > b THEN a ELSE b

\* the state the constructor leaves: no port, the stopwatch just started
Init ==
  /\ port = NoPort
  /\ last_port_name = ""
  /\ cmd_term = DefaultCmdTerm
  /\ elapsed = 0
  /\ sinceTx = MaxTerm
  /\ rx = <<>>
  /\ m = NoOne
  /\ pc = [t \in Threads |-> "idle"]
  /\ call = [t \in Threads |-> NoCall]
  /\ slp = [t \in Threads |-> 0]
  /\ sent = [t \in Threads |-> FALSE]
  /\ tx = [t \in Threads |-> <<>>]
  /\ nr = [t \in Threads |-> 0]
  /\ old = [t \in Threads |-> NoTask]
  /\ rd = [c \in Ctxs |-> "none"]
  /\ task = [d \in Tasks |-> FreeTask]
  /\ fut = [f \in Futs |-> NoTask]
  /\ wire = <<>>
  /\ res = NoRes
  /\ log_level = LOG_WARNING
  /\ log = <<>>
  /\ wireBy = NoOne
  /\ rxOf = <<>>

(* ------------------------------ transport ----------------------------- *)

\* What closing the port does to the reads other threads are blocked in:
\* port_->cancel() ends asynchronous operations only, and close() and
\* port_.reset() pull the descriptor and the object from under a blocked
\* read, so each such read either ends with an error (woken) or stays
\* blocked on the dead descriptor.
Closed(rdf, woken) ==
  [c \in Ctxs |->
     IF rdf[c] = "reading"
     THEN IF c \in woken THEN "ended" ELSE "orphan"
     ELSE rdf[c]]

Reading(rdf) == {c \in Ctxs : rdf[c] = "reading"}

\* Serial::FlushListen, POSIX build: tcflush(fd, TCIFLUSH) drops the input
\* received and not read; nothing when port_ is null
FlushListen(p, r) == IF p = NoPort THEN r ELSE <<>>

\* Serial::FlushSend, POSIX build: tcflush(fd, TCOFLUSH) drops output not
\* yet transmitted; the input received stays
FlushSend(p, r) == r

\* a Disconnect that leaves port_ as it was
DisconnectKeepsPort(p) == p

\* Serial::Disconnect: port_ when it returns
Disconnect(p) == NoPort

\* a Connect that reports success whatever ListenUntil returned
HandshakeOkAlways(got) == TRUE

\* Serial::Connect's result once the handshake read is over: true when
\* ListenUntil returned true
HandshakeOk(got) == got

\* a Send that drops the port when nothing could be written
PortClosedOnFailedSend(p, w) == IF w = 0 THEN NoPort ELSE p

\* Serial::Send: port_ when it returns, w being the size written; port_
\* is left as it is, also when write_some threw
PortAfterSend(p, w) == p

\* what ListenUntil leaves in *read when everything received is stored
ListenBufferPartial(got, text) == text

\* Serial::ListenUntil: *read when it returns, got being its result and
\* text what the streambuf received; *read is assigned only on the way to
\* return true, and the callers pass an empty string
ListenBuffer(got, text) == IF got THEN text ELSE <<>>

\* a Send that writes without looking at port_
WrittenSizesAnyPort(p, frame) == {0, 1, Len(frame)}

\* The sizes port_->write_some can return for a frame: nothing (the write
\* threw, or port_ is null), a short write, the whole frame.
WrittenSizes(p, frame) == IF p = NoPort THEN {0} ELSE {0, 1, Len(frame)}

\* a send that writes the frame again after a short write
TxAfterRetry(t, frame, w) ==
  IF w > 0 /\ w < Len(frame)
  THEN tx[t] \o <<SubSeq(frame, 1, w), frame>>
  ELSE IF w > 0 THEN Append(tx[t], SubSeq(frame, 1, w)) ELSE tx[t]

\* the writes of a call after write_some returned w for frame
TxAfter(t, frame, w) == IF w > 0 THEN Append(tx[t], SubSeq(frame, 1, w)) ELSE tx[t]

\* what read_until leaves in the streambuf: every line received so far
RECURSIVE Flatten(_)
Flatten(lines) ==
  IF lines = <<>> THEN <<>> ELSE Head(lines) \o Flatten(Tail(lines))

(* ------------------------------- device ------------------------------- *)

\* the verb (with its axis digit) of a complete frame the device received
VerbOf(w) == IF w # <<>> /\ IsDigit(Head(w)) THEN SubSeq(w, 1, 3) ELSE SubSeq(w, 1, 2)

IsFrame(w) == Len(w) >= 4 /\ SubSeq(w, Len(w) - 1, Len(w)) = CRLF

\* The lines the controller may send after the frame w with values vals:
\* the echo of the verb with a value, the echo with text that is no
\* number, and a line without the echo.
DevLines(w, vals) ==
  IF IsFrame(w)
  THEN {VerbOf(w) \o to_string(v) \o CRLF : v \in vals}
         \cup {VerbOf(w) \o <<"x">> \o CRLF, CRLF}
  ELSE {}

(* ------------------------------- calls made --------------------------- *)

\* the calls the threads of the concurrent specification make
ConcCalls ==
  {MkCall("GetAxisStatus", a, TRUE, 0, 0, 5, "") : a \in {1}}
    \cup {MkCall("StopMotion", a, TRUE, 0, 0, 5, "") : a \in {1}}
    \cup {MkCall("MeasureCurrentPosition", a, TRUE, 0, f, 5, "") :
            a \in {1}, f \in Futs}
    \cup {MkCall("ConnectDeviceUSB", 0, TRUE, 0, 0, 5, nm) : nm \in PortNames}
    \cup {MkCall("DisconnectDevice", 0, TRUE, 0, 0, 5, "")}

\* values the controller reports to the threads of the concurrent specification
ConcVals == {2}

\* the axis values the single caller passes: an axis and the values on
\* either side of the two axes
OpsAxes == {0, 1, 3}
\* the amplitudes and the channels it passes
OpsAmplitudes == {-51, 0, 2, 51}
OpsChannels == {-1, 0, 5}

\* the calls of the single-caller specification: the connect, disconnect
\* and command operations with valid and invalid arguments; a measurement
\* only with an invalid axis, the deferred task being left to Spec
OpsCalls ==
  {MkCall(op, a, TRUE, 2, 0, 5, "") :
     op \in {"SetStepDelay", "AbsoluteMove", "StopMotion", "ZeroPosition",
             "StartJogMotion", "MoveToLimit", "RelativeMove"},
     a \in OpsAxes}
    \cup {MkCall("SetStepAmplitude", a, TRUE, n, 0, 5, "") :
            a \in OpsAxes, n \in OpsAmplitudes}
    \cup {MkCall(op, a, TRUE, 0, 0, 5, "") :
            op \in {"GetStepDelay", "TellNumberOfSteps", "GetAxisStatus",
                    "GetStepAmplitudeSetting"},
            a \in OpsAxes}
    \cup {MkCall("GetJogMode", a, TRUE, 0, 0, i0, "") :
            a \in OpsAxes, i0 \in {-5, 5}}
    \cup {MkCall(op, 0, TRUE, 0, 0, 5, "") :
            op \in {"TellLimitStatus", "GetErrorOfPreviousCommand",
                    "GetControllerFirmwareVersion", "GetChannel",
                    "SetToLocalMode", "SetToRemoteMode", "ResetController",
                    "DisconnectDevice"}}
    \cup {MkCall("ChangeChannel", 0, TRUE, n, 0, 5, "") : n \in OpsChannels}
    \cup {MkCall("SetCommandTerm", 0, TRUE, n, 0, 5, "") : n \in 0 .. MaxTerm}
    \cup {MkCall("MeasureCurrentPosition", a, TRUE, 0, f, 5, "") :
            a \in OpsAxes \ {1, 2}, f \in Futs}
    \cup {MkCall(op, 0, TRUE, 0, 0, 5, nm) : op \in ConnectOps, nm \in PortNames}

\* values the controller reports to the single caller
OpsVals == {-3, 2}

\* the calls of the threads that share a connected session while its
\* interval is set: exchanges, one of them a deferred measurement, and
\* SetCommandTerm
CfgCalls ==
  {MkCall("GetAxisStatus", 1, TRUE, 0, 0, 5, "")}
    \cup {MkCall("MeasureCurrentPosition", 1, TRUE, 0, f, 5, "") : f \in Futs}
    \cup {MkCall("SetCommandTerm", 0, TRUE, n, 0, 5, "") : n \in 0 .. MaxTerm}

\* the arguments of the calls whose encoding and decoding are followed one
\* call at a time: the axes and the values on either side of them, the
\* amplitudes and channels at and on either side of their limits
ArgAxes == {0, 1, 2, 3}
ArgAmplitudes == {-51, -50, -1, 0, 1, 50, 51}
ArgChannels == {-1, 0, 1, 2, 3, 4, 5}
ArgSteps == {-10, -1, 1, 10}
ArgSpeeds == {1, 3}

ArgCalls ==
  {MkCall("SetStepAmplitude", a, s, n, 0, 5, "") :
     a \in ArgAxes, s \in BOOLEAN, n \in ArgAmplitudes}
    \cup {MkCall("RelativeMove", a, s, n, 0, 5, "") :
            a \in {1, 2}, s \in BOOLEAN, n \in ArgSteps}
    \cup {MkCall("StartJogMotion", a, s, n, 0, 5, "") :
            a \in {1, 2}, s \in BOOLEAN, n \in ArgSpeeds}
    \cup {MkCall("MoveToLimit", a, s, n, 0, 5, "") :
            a \in {1, 2}, s \in BOOLEAN, n \in ArgSteps}
    \cup {MkCall("GetJogMode", a, TRUE, 0, 0, i0, "") :
            a \in {1, 2}, i0 \in {-5, 5}}
    \cup {MkCall("GetAxisStatus", a, TRUE, 0, 0, 5, "") : a \in {1, 2}}
    \cup {MkCall("GetStepAmplitudeSetting", a, s, 0, 0, 5, "") :
            a \in {1, 2}, s \in BOOLEAN}
    \cup {MkCall("TellLimitStatus", 0, TRUE, 0, 0, 5, "")}
    \cup {MkCall("GetControllerFirmwareVersion", 0, TRUE, 0, 0, 5, "")}
    \cup {MkCall("ChangeChannel", 0, TRUE, n, 0, 5, "") : n \in ArgChannels}

\* values the controller reports to those calls
ArgVals == {-12, -3, -1, 0, 1, 2, 3, 4, 12}


\* tasks that exist, and measurement calls that are about to start one
LiveTasks == {d \in Tasks : task[d].st # "free"}
Starting ==
  {t \in Threads : pc[t] \in {"lock", "sleep"} /\ call[t].op = "MeasureCurrentPosition"}

(* ------------------------------ operations ---------------------------- *)

\* Thread t returns from its call with result r and outputs o, having
\* written txs and called ListenUntil n times; l and b are how its
\* ListenUntil ended and the text it stored.
Returns(t, r, o, snt, txs, n, l, b) ==
  /\ res' = [t |-> t, call |-> call[t], ret |-> r, out |-> o, sent |-> snt,
             tx |-> txs, nr |-> n, lu |-> l, buf |-> b, name |-> ""]
  /\ pc' = [pc EXCEPT ![t] = "idle"]
  /\ call' = [call EXCEPT ![t] = NoCall]
  /\ sent' = [sent EXCEPT ![t] = FALSE]
  /\ tx' = [tx EXCEPT ![t] = <<>>]
  /\ nr' = [nr EXCEPT ![t] = 0]

\* The caller takes what the call handed back.  It is the one step a
\* state with a returned call has: a return and its hand-over are one
\* event of the program.
Return ==
  /\ res # NoRes
  /\ res' = NoRes
  /\ UNCHANGED <<port, last_port_name, cmd_term, elapsed, sinceTx, rx, m, pc,
                 call, slp, sent, tx, nr, old, rd, task, fut, wire>>
  /\ UNCHANGED <<log_level, log, wireBy, rxOf>>

\* A thread calls a public operation: the parameter checks the operation
\* makes before it takes the lock.  A call that fails them returns false.
Call(t, calls) ==
  /\ res = NoRes
  /\ pc[t] = "idle"
  /\ \E c \in calls :
       /\ c.op = "MeasureCurrentPosition"
            => Cardinality(LiveTasks) + Cardinality(Starting) < MaxTasks
       /\ IF Valid(c)
          THEN /\ pc' = [pc EXCEPT ![t] = "lock"]
               /\ call' = [call EXCEPT ![t] = c]
               /\ UNCHANGED res
          ELSE /\ res' = [t |-> t, call |-> c, ret |-> FALSE, out |-> InitOut(c),
                          sent |-> FALSE, tx |-> <<>>, nr |-> 0, lu |-> "none",
                          buf |-> <<>>, name |-> ""]
               /\ UNCHANGED <<pc, call>>
  /\ UNCHANGED <<port, last_port_name, cmd_term, elapsed, sinceTx, rx, m, slp,
                 sent, tx, nr, old, rd, task, fut, wire>>
  /\ UNCHANGED <<log_level, log, wireBy, rxOf>>

\* the thread makes the call it came to make
Enter(t) ==
  /\ call[t] # NoCall
  /\ Call(t, {call[t]})

\* the threads other than t whose next step assigns last_port_name_: a
\* connect whose handshake reply has arrived, a DisconnectDevice that can
\* take the lock
NameWriters(t) ==
  {u \in Threads \ {t} :
     \/ /\ call[u].op \in ConnectOps
        /\ pc[u] = "wait" /\ rd[u] = "reading"
        /\ port # NoPort /\ rx # <<>>
     \/ /\ call[u].op = "DisconnectDevice"
        /\ pc[u] = "lock" /\ m = NoOne}

\* a std::string read while another thread assigns it
TornName == "?"

\* What a read of last_port_name_ made without the lock can give: the
\* string as it is, and, when it runs together with the step of another
\* thread that assigns it, the string that step assigns or a torn one.
NameRead(t) ==
  {last_port_name}
    \cup {call[u].name : u \in NameWriters(t)}
    \cup (IF NameWriters(t) = {} THEN {} ELSE {TornName})

\* GetPortName: return last_port_name_, no lock_guard
GetPortName(t) ==
  /\ res = NoRes
  /\ pc[t] = "idle"
  /\ \E v \in NameRead(t) :
       res' = [t |-> t, call |-> MkCall("GetPortName", 0, TRUE, 0, 0, 0, ""),
               ret |-> TRUE,
               out |-> InitOut(MkCall("GetPortName", 0, TRUE, 0, 0, 0, "")),
               sent |-> FALSE, tx |-> <<>>, nr |-> 0, lu |-> "none",
               buf |-> <<>>, name |-> v]
  /\ UNCHANGED <<port, last_port_name, cmd_term, elapsed, sinceTx, rx, m, pc,
                 call, slp, sent, tx, nr, old, rd, task, fut, wire>>
  /\ UNCHANGED <<log_level, log, wireBy, rxOf>>

\* SetLogLevel: lock_guard, log_level_ = level, then __Log(LOG_INFO, ...)
\* under the new threshold
SetLogLevel(level) ==
  /\ res = NoRes
  /\ m = NoOne
  /\ Len(log) < MaxLog
  /\ log_level' = level
  /\ log' = Append(log, LogCall(LOG_INFO, "engine", level))
  /\ UNCHANGED <<port, last_port_name, cmd_term, elapsed, sinceTx, rx, m, pc,
                 call, slp, sent, tx, nr, old, rd, task, fut, wire, res,
                 wireBy, rxOf>>

\* the engine calls __Log(level, message)
EngineLog(level) ==
  /\ res = NoRes
  /\ Len(log) < MaxLog
  /\ log' = Append(log, LogCall(level, "engine", log_level))
  /\ UNCHANGED <<port, last_port_name, cmd_term, elapsed, sinceTx, rx, m, pc,
                 call, slp, sent, tx, nr, old, rd, task, fut, wire, res,
                 log_level, wireBy, rxOf>>

\* Serial::Log: the callback set in the constructor,
\* __Log(LOG_DEBUG, "Serial: " + message)
SerialLog ==
  /\ res = NoRes
  /\ Len(log) < MaxLog
  /\ log' = Append(log, LogCall(LOG_DEBUG, "serial", log_level))
  /\ UNCHANGED <<port, last_port_name, cmd_term, elapsed, sinceTx, rx, m, pc,
                 call, slp, sent, tx, nr, old, rd, task, fut, wire, res,
                 log_level, wireBy, rxOf>>

\* time passes: one tick
Tick ==
  /\ res = NoRes
  /\ elapsed' = Min(elapsed + 1, MaxTerm)
  /\ sinceTx' = Min(sinceTx + 1, MaxTerm)
  /\ slp' = [t \in Threads |-> Max(slp[t] - 1, 0)]
  /\ <<elapsed', sinceTx', slp'>> # <<elapsed, sinceTx, slp>>
  /\ UNCHANGED res
  /\ UNCHANGED <<port, last_port_name, cmd_term, rx, m, pc, call, sent, tx, nr,
                 old, rd, task, fut, wire>>
  /\ UNCHANGED <<log_level, log, wireBy, rxOf>>

\* __SendCommand up to its sleep: lock_guard, then remaintime
\* = cmd_term_ - ElapsedMilli() and sleep_for(remaintime) when positive
RemainTime == cmd_term - elapsed

AcquireSend(t) ==
  /\ res = NoRes
  /\ pc[t] = "lock"
  /\ call[t].op \in SendOps \cup ReplyOps \cup {"MeasureCurrentPosition"}
  /\ m = NoOne
  /\ m' = t
  /\ slp' = [slp EXCEPT ![t] = Max(RemainTime, 0)]
  /\ pc' = [pc EXCEPT ![t] = "sleep"]
  /\ UNCHANGED res
  /\ UNCHANGED <<port, last_port_name, cmd_term, elapsed, sinceTx, rx, call,
                 sent, tx, nr, old, rd, task, fut, wire>>
  /\ UNCHANGED <<log_level, log, wireBy, rxOf>>

\* the exchange of reading context c is over: what it asked is asked by
\* no one any more
Retired(c, by) == IF by = c THEN NoOne ELSE by

RetiredAll(c, tags) == [i \in 1 .. Len(tags) |-> Retired(c, tags[i])]

\* whose the lines are that are left once the exchange of c is over and
\* the input is r: all of rx, or nothing
TagsLeft(c, r) == IF r = <<>> THEN <<>> ELSE RetiredAll(c, rxOf)

\* who asked what the controller last received, after the write of frame
\* for reading context c returned w: c when the whole frame went out
AskedBy(c, frame, w) == IF w = Len(frame) THEN c ELSE wireBy

\* __SendCommand from FlushSend on, with w the size Send returns: the frame
\* is written and the stopwatch restarted; the result is whether the whole
\* frame was written.
SendCommand(t, frame, w) ==
  /\ port' = PortAfterSend(port, w)
  /\ rx' = FlushSend(port, rx)
  /\ rxOf' = (IF FlushSend(port, rx) = <<>> THEN <<>> ELSE rxOf)
  /\ sinceTx' = IF w > 0 THEN 0 ELSE sinceTx
  /\ wire' = IF w = Len(frame) THEN frame ELSE wire
  /\ elapsed' = 0

SendResult(frame, w) == w = Len(frame)

\* a send-only operation: return __SendCommand(...)
SendOnly(t) ==
  /\ res = NoRes
  /\ pc[t] = "sleep" /\ slp[t] = 0
  /\ call[t].op \in SendOps
  /\ \E w \in WrittenSizes(port, Frame(call[t])) :
       /\ SendCommand(t, Frame(call[t]), w)
       /\ wireBy' = AskedBy(NoOne, Frame(call[t]), w)
       /\ Returns(t, SendResult(Frame(call[t]), w), InitOut(call[t]),
                  SendResult(Frame(call[t]), w), TxAfter(t, Frame(call[t]), w),
                  0, "none", <<>>)
  /\ m' = NoOne
  /\ UNCHANGED <<last_port_name, cmd_term, slp, old, rd, task, fut>>
  /\ UNCHANGED <<log_level, log>>


\* What a reply-expecting operation hands back once __GetReturnValue is
\* over: the outputs decoded from text (nothing when ListenUntil failed)
\* and, as its result, what __SendCommand returned.
QueryReturns(t, snt, txs, n, got, l, text) ==
  \E u \in (IF call[t].op = "TellLimitStatus" THEN UninitInts ELSE {0}) :
    Returns(t, snt,
            Decode(call[t], InitOut(call[t]), got, ListenBuffer(got, text), u),
            snt, txs, n, l, ListenBuffer(got, text))

\* A reply-expecting operation from the send to the start of the read:
\* __SendCommand, then __GetReturnValue whatever the send returned.
\* ListenUntil returns false at once when port_ is null; otherwise it
\* starts the read thread and waits for it.
SendQuery(t) ==
  /\ res = NoRes
  /\ pc[t] = "sleep" /\ slp[t] = 0
  /\ call[t].op \in ReplyOps
  /\ \E w \in WrittenSizes(port, Frame(call[t])) :
       /\ SendCommand(t, Frame(call[t]), w)
       /\ wireBy' = AskedBy(t, Frame(call[t]), w)
       /\ IF port = NoPort
          THEN /\ QueryReturns(t, SendResult(Frame(call[t]), w),
                               TxAfter(t, Frame(call[t]), w), 0, FALSE, "false", <<>>)
               /\ m' = NoOne
               /\ UNCHANGED rd
          ELSE /\ sent' = [sent EXCEPT ![t] = SendResult(Frame(call[t]), w)]
               /\ tx' = [tx EXCEPT ![t] = TxAfter(t, Frame(call[t]), w)]
               /\ nr' = [nr EXCEPT ![t] = 1]
               /\ rd' = [rd EXCEPT ![t] = "reading"]
               /\ pc' = [pc EXCEPT ![t] = "wait"]
               /\ UNCHANGED res
               /\ UNCHANGED <<m, call>>
  /\ UNCHANGED <<last_port_name, cmd_term, slp, old, task, fut>>
  /\ UNCHANGED <<log_level, log>>

\* the lowest free task slot
NewTask == CHOOSE d \in Tasks : task[d].st = "free" /\ \A e \in Tasks : task[e].st = "free" => d <= e

\* MeasureCurrentPosition from the send on: __SendCommand(MA[axis]), then
\* std::async starts the deferred task whatever the send returned, and the
\* new future is move-assigned to *out_position.  The assignment releases
\* the shared state *out_position held: when that belongs to a task that
\* has not finished, it blocks until the task has, inside the lock_guard.
SendMeasure(t) ==
  /\ res = NoRes
  /\ pc[t] = "sleep" /\ slp[t] = 0
  /\ call[t].op = "MeasureCurrentPosition"
  /\ \E w \in WrittenSizes(port, Frame(call[t])) :
       LET d == NewTask
           e == fut[call[t].f]
           started == [st |-> "start", axis |-> call[t].axis, val |-> 0, by |-> t]
       IN /\ SendCommand(t, Frame(call[t]), w)
          /\ wireBy' = AskedBy(TaskCtx(d), Frame(call[t]), w)
          /\ IF e # NoTask /\ task[e].st # "done"
             THEN /\ task' = [task EXCEPT ![d] = started]
                  /\ old' = [old EXCEPT ![t] = e]
                  /\ sent' = [sent EXCEPT ![t] = SendResult(Frame(call[t]), w)]
                  /\ tx' = [tx EXCEPT ![t] = TxAfter(t, Frame(call[t]), w)]
                  /\ pc' = [pc EXCEPT ![t] = "assign"]
                  /\ UNCHANGED res
                  /\ UNCHANGED <<m, call, nr, fut>>
             ELSE /\ task' = [d2 \in Tasks |->
                                IF d2 = d THEN started
                                ELSE IF d2 = e THEN FreeTask ELSE task[d2]]
                  /\ fut' = [fut EXCEPT ![call[t].f] = d]
                  /\ Returns(t, SendResult(Frame(call[t]), w), InitOut(call[t]),
                             SendResult(Frame(call[t]), w),
                             TxAfter(t, Frame(call[t]), w), 0, "none", <<>>)
                  /\ m' = NoOne
                  /\ UNCHANGED old
  /\ UNCHANGED <<last_port_name, cmd_term, slp, rd>>
  /\ UNCHANGED <<log_level, log>>

\* the task a blocked assignment has started and not yet stored
Unstored(t) ==
  CHOOSE d \in Tasks :
    task[d].st # "free" /\ d # old[t] /\ \A f \in Futs : fut[f] # d

\* the blocked future assignment ends when the task it waits for has
\* finished; MeasureCurrentPosition then returns and releases the lock
AssignDone(t) ==
  /\ res = NoRes
  /\ pc[t] = "assign"
  /\ task[old[t]].st = "done"
  /\ task' = [task EXCEPT ![old[t]] = FreeTask]
  /\ fut' = [fut EXCEPT ![call[t].f] = Unstored(t)]
  /\ old' = [old EXCEPT ![t] = NoTask]
  /\ Returns(t, sent[t], InitOut(call[t]), sent[t], tx[t], nr[t], "none", <<>>)
  /\ m' = NoOne
  /\ UNCHANGED <<port, last_port_name, cmd_term, elapsed, sinceTx, rx, slp, rd, wire>>
  /\ UNCHANGED <<log_level, log, wireBy, rxOf>>

\* the owner of a future takes the value of a finished task: future::get()
FutureGet(f) ==
  /\ res = NoRes
  /\ fut[f] # NoTask
  /\ task[fut[f]].st = "done"
  /\ \A t \in Threads : old[t] # fut[f]
  /\ task' = [task EXCEPT ![fut[f]] = FreeTask]
  /\ fut' = [fut EXCEPT ![f] = NoTask]
  /\ UNCHANGED res
  /\ UNCHANGED <<port, last_port_name, cmd_term, elapsed, sinceTx, rx, m, pc,
                 call, slp, sent, tx, nr, old, rd, wire>>
  /\ UNCHANGED <<log_level, log, wireBy, rxOf>>

\* DisconnectDevice: lock_guard, Serial::Disconnect (cancel, close and
\* reset the port when there is one), last_port_name_.clear()
DisconnectDevice(t) ==
  /\ res = NoRes
  /\ pc[t] = "lock"
  /\ call[t].op = "DisconnectDevice"
  /\ m = NoOne
  /\ port' = Disconnect(port)
  /\ rx' = <<>>
  /\ rxOf' = <<>>
  /\ UNCHANGED wireBy
  /\ \E woken \in SUBSET Reading(rd) :
       rd' = IF port = NoPort THEN rd ELSE Closed(rd, woken)
  /\ last_port_name' = ""
  /\ Returns(t, TRUE, InitOut(call[t]), FALSE, <<>>, 0, "none", <<>>)
  /\ UNCHANGED <<cmd_term, elapsed, sinceTx, m, slp, old, task, fut, wire>>
  /\ UNCHANGED <<log_level, log>>

\* SetCommandTerm: lock_guard, cmd_term_ = ms
SetCommandTerm(t) ==
  /\ res = NoRes
  /\ pc[t] = "lock"
  /\ call[t].op = "SetCommandTerm"
  /\ m = NoOne
  /\ cmd_term' = call[t].n
  /\ Returns(t, TRUE, InitOut(call[t]), FALSE, <<>>, 0, "none", <<>>)
  /\ UNCHANGED <<port, last_port_name, elapsed, sinceTx, rx, m, slp, old, rd,
                 task, fut, wire>>
  /\ UNCHANGED <<log_level, log, wireBy, rxOf>>

\* ConnectDeviceUSB / ConnectDeviceRS232 up to the settle delay: lock_guard,
\* then Serial::Connect's try block.  The serial_port constructor throws
\* (no such device) before port_ is assigned; a set_option throws after
\* port_ holds the opened port; both return false.  Assigning port_
\* destroys the port it held, under any read blocked on it.
ConnectOpen(t) ==
  /\ res = NoRes
  /\ pc[t] = "lock"
  /\ call[t].op \in ConnectOps
  /\ m = NoOne
  /\ \E outcome \in {"no_device", "bad_option", "open"} :
       /\ IF outcome = "no_device"
          THEN UNCHANGED <<port, rx, rd, rxOf>>
          ELSE /\ port' = call[t].name
               /\ rx' = <<>>
               /\ rxOf' = <<>>
               /\ \E woken \in SUBSET Reading(rd) :
                    rd' = IF port = NoPort THEN rd ELSE Closed(rd, woken)
       /\ IF outcome = "open"
          THEN /\ m' = t
               /\ slp' = [slp EXCEPT ![t] = SettleDelay]
               /\ pc' = [pc EXCEPT ![t] = "settle"]
               /\ UNCHANGED res
               /\ UNCHANGED <<call, sent, tx, nr>>
          ELSE /\ Returns(t, FALSE, InitOut(call[t]), FALSE, <<>>, 0, "none", <<>>)
               /\ UNCHANGED <<m, slp>>
  /\ UNCHANGED <<last_port_name, cmd_term, elapsed, sinceTx, old, task, fut, wire>>
  /\ UNCHANGED <<log_level, log, wireBy>>

\* Serial::Connect after sleep_for(100 ms): Send(handshake_send), which
\* neither waits for the interval nor restarts the stopwatch, then
\* ListenUntil for the reply
Handshake(t) ==
  /\ res = NoRes
  /\ pc[t] = "settle" /\ slp[t] = 0
  /\ \E w \in WrittenSizes(port, HandshakeSend) :
       /\ tx' = [tx EXCEPT ![t] = TxAfter(t, HandshakeSend, w)]
       /\ sinceTx' = IF w > 0 THEN 0 ELSE sinceTx
       /\ wire' = IF w = Len(HandshakeSend) THEN HandshakeSend ELSE wire
       /\ sent' = [sent EXCEPT ![t] = SendResult(HandshakeSend, w)]
       /\ wireBy' = AskedBy(t, HandshakeSend, w)
  /\ nr' = [nr EXCEPT ![t] = 1]
  /\ rd' = [rd EXCEPT ![t] = "reading"]
  /\ pc' = [pc EXCEPT ![t] = "wait"]
  /\ UNCHANGED res
  /\ UNCHANGED <<port, last_port_name, cmd_term, elapsed, rx, m, call, slp,
                 old, task, fut>>
  /\ UNCHANGED <<log_level, log, rxOf>>

(* --------------------------- the end of a read ------------------------ *)

\* the deferred task that reads in context c
TaskOf(c) == c - NThreads

\* the context's wait_for is running; otherwise it has timed out and the
\* future of ListenUntil is being destroyed, which joins the read thread
Waiting(c) ==
  IF c \in Threads THEN pc[c] = "wait" ELSE task[TaskOf(c)].st = "read"

\* ListenUntil returns to thread t: got is its result, text what it stored,
\* rxAfter the input the read left, l how it ended.  Serial::Connect
\* returns true, or calls Disconnect and returns false; the connect
\* operation records the port name on success.  A reply-expecting
\* operation goes on with FlushListen and the parse.
FinishCall(t, got, text, rxAfter, l) ==
  /\ IF call[t].op \in ConnectOps
     THEN /\ IF HandshakeOk(got)
             THEN /\ last_port_name' = call[t].name
                  /\ rx' = rxAfter
                  /\ rd' = [rd EXCEPT ![t] = "none"]
                  /\ UNCHANGED port
             ELSE /\ port' = Disconnect(port)
                  /\ rx' = <<>>
                  /\ \E woken \in SUBSET Reading([rd EXCEPT ![t] = "none"]) :
                       rd' = Closed([rd EXCEPT ![t] = "none"], woken)
                  /\ UNCHANGED last_port_name
          /\ Returns(t, HandshakeOk(got), InitOut(call[t]), sent[t], tx[t], nr[t], l,
                     ListenBuffer(got, text))
     ELSE /\ rx' = FlushListen(port, rxAfter)
          /\ rd' = [rd EXCEPT ![t] = "none"]
          /\ QueryReturns(t, sent[t], tx[t], nr[t], got, l, text)
          /\ UNCHANGED <<port, last_port_name>>
  /\ m' = NoOne
  /\ wireBy' = Retired(t, wireBy)
  /\ rxOf' = TagsLeft(t, rx')
  /\ UNCHANGED <<cmd_term, elapsed, sinceTx, slp, old, task, fut, wire>>

\* __GetReturnValue returns in deferred task d: FlushListen, then the
\* parse into v, which stays 0 when it fails; the task ends with v
FinishTask(d, got, text, rxAfter) ==
  LET p == GetIntegerFromReturnValue(ListenBuffer(got, text), MA(task[d].axis))
  IN /\ task' = [task EXCEPT ![d].st = "done",
                               ![d].val = IF p.ok THEN p.val ELSE 0]
     /\ rx' = FlushListen(port, rxAfter)
     /\ rd' = [rd EXCEPT ![TaskCtx(d)] = "none"]
     /\ wireBy' = Retired(TaskCtx(d), wireBy)
     /\ rxOf' = TagsLeft(TaskCtx(d), rx')
     /\ UNCHANGED res
     /\ UNCHANGED <<port, last_port_name, cmd_term, elapsed, sinceTx, m, pc,
                    call, slp, sent, tx, nr, old, fut, wire>>

Finish(c, got, text, rxAfter, l) ==
  IF c \in Threads THEN FinishCall(c, got, text, rxAfter, l)
  ELSE FinishTask(TaskOf(c), got, text, rxAfter)

\* the deferred task starts running: __GetReturnValue(buf, 130000), whose
\* ListenUntil returns false at once when port_ is null
TaskStart(d) ==
  /\ res = NoRes
  /\ task[d].st = "start"
  /\ IF port = NoPort
     THEN FinishTask(d, FALSE, <<>>, rx)
     ELSE /\ task' = [task EXCEPT ![d].st = "read"]
          /\ rd' = [rd EXCEPT ![TaskCtx(d)] = "reading"]
          /\ UNCHANGED res
          /\ UNCHANGED <<port, last_port_name, cmd_term, elapsed, sinceTx, rx, m,
                         pc, call, slp, sent, tx, nr, old, fut, wire,
                         wireBy, rxOf>>
  /\ UNCHANGED <<log_level, log>>

\* read_until returns: the delimiter is in the input received.  The read
\* takes everything received.  When the wait already timed out the data
\* is dropped with the streambuf and ListenUntil returns false.
ReadDone(c) ==
  /\ res = NoRes
  /\ rd[c] = "reading"
  /\ port # NoPort
  /\ rx # <<>>
  /\ IF Waiting(c)
     THEN Finish(c, TRUE, Flatten(rx), <<>>, "true")
     ELSE Finish(c, FALSE, Flatten(rx), <<>>, "timeout")
  /\ UNCHANGED <<log_level, log>>

\* read_until throws: the link went down under the read, or the port was
\* closed under it and the read noticed
ReadError(c) ==
  /\ res = NoRes
  /\ rd[c] \in {"reading", "ended"}
  /\ IF Waiting(c)
     THEN Finish(c, FALSE, Flatten(rx), rx, "false")
     ELSE Finish(c, FALSE, Flatten(rx), rx, "timeout")
  /\ UNCHANGED <<log_level, log>>

\* future.wait_for times out.  port_->cancel() is called when port_ is
\* not null; it ends the blocking read_until on some builds and not on
\* others.  ListenUntil then returns false, which destroys the future of
\* std::async and so waits for the read thread to end.
Timeout(c) ==
  /\ res = NoRes
  /\ Waiting(c)
  /\ rd[c] # "none"
  /\ \E cancelled \in (IF port # NoPort /\ rd[c] = "reading" THEN BOOLEAN ELSE {FALSE}) :
       IF cancelled
       THEN Finish(c, FALSE, Flatten(rx), rx, "timeout")
       ELSE /\ IF c \in Threads
               THEN /\ pc' = [pc EXCEPT ![c] = "join"]
                    /\ UNCHANGED task
               ELSE /\ task' = [task EXCEPT ![TaskOf(c)].st = "join"]
                    /\ UNCHANGED pc
            /\ UNCHANGED res
            /\ UNCHANGED <<port, last_port_name, cmd_term, elapsed, sinceTx, rx,
                           m, call, slp, sent, tx, nr, old, rd, fut, wire,
                           wireBy, rxOf>>
  /\ UNCHANGED <<log_level, log>>

\* the controller sends a line in answer to the last frame it received
DeviceSend(vals) ==
  /\ res = NoRes
  /\ port # NoPort
  /\ Len(rx) < MaxRx
  /\ \E line \in DevLines(wire, vals) : rx' = Append(rx, line)
  /\ rxOf' = Append(rxOf, wireBy)
  /\ UNCHANGED res
  /\ UNCHANGED <<port, last_port_name, cmd_term, elapsed, sinceTx, m, pc, call,
                 slp, sent, tx, nr, old, rd, task, fut, wire>>
  /\ UNCHANGED <<log_level, log, wireBy>>

(* ---------------------------- specifications -------------------------- *)

\* NThreads threads share the session
Next ==
  \/ \E t \in Threads : Call(t, ConcCalls)
  \/ \E t \in Threads : AcquireSend(t)
  \/ \E t \in Threads : SendOnly(t)
  \/ \E t \in Threads : SendQuery(t)
  \/ \E t \in Threads : SendMeasure(t)
  \/ \E t \in Threads : AssignDone(t)
  \/ \E t \in Threads : DisconnectDevice(t)
  \/ \E t \in Threads : ConnectOpen(t)
  \/ \E t \in Threads : Handshake(t)
  \/ \E d \in Tasks : TaskStart(d)
  \/ \E c \in Ctxs : ReadDone(c)
  \/ \E c \in Ctxs : ReadError(c)
  \/ \E c \in Ctxs : Timeout(c)
  \/ \E f \in Futs : FutureGet(f)
  \/ \E t \in Threads : GetPortName(t)
  \/ DeviceSend(ConcVals)
  \/ Tick
  \/ Return

Spec == Init /\ [][Next]_vars

\* one caller makes the operations of the interface
NextOps ==
  \/ Call(1, OpsCalls)
  \/ AcquireSend(1)
  \/ SendOnly(1)
  \/ SendQuery(1)
  \/ DisconnectDevice(1)
  \/ SetCommandTerm(1)
  \/ ConnectOpen(1)
  \/ Handshake(1)
  \/ ReadDone(1)
  \/ ReadError(1)
  \/ Timeout(1)
  \/ GetPortName(1)
  \/ DeviceSend(OpsVals)
  \/ Tick
  \/ Return

SpecOps == Init /\ [][NextOps]_vars

\* One call of the interface on a session that is connected or not: the
\* caller holds the call it is about to make.  A connected session has
\* had its handshake frame received by the controller and its reply read.
InitCall ==
  /\ port \in {NoPort} \cup PortNames
  /\ last_port_name = IF port = NoPort THEN "" ELSE port
  /\ cmd_term = DefaultCmdTerm
  /\ elapsed \in 0 .. MaxTerm
  /\ sinceTx = MaxTerm
  /\ rx = <<>>
  /\ m = NoOne
  /\ pc = [t \in Threads |-> "idle"]
  /\ \E c \in ArgCalls : call = [t \in Threads |-> IF t = 1 THEN c ELSE NoCall]
  /\ slp = [t \in Threads |-> 0]
  /\ sent = [t \in Threads |-> FALSE]
  /\ tx = [t \in Threads |-> <<>>]
  /\ nr = [t \in Threads |-> 0]
  /\ old = [t \in Threads |-> NoTask]
  /\ rd = [c \in Ctxs |-> "none"]
  /\ task = [d \in Tasks |-> FreeTask]
  /\ fut = [f \in Futs |-> NoTask]
  /\ wire = IF port = NoPort THEN <<>> ELSE HandshakeSend
  /\ res = NoRes
  /\ log_level = LOG_WARNING
  /\ log = <<>>
  /\ wireBy = NoOne
  /\ rxOf = <<>>

NextCall ==
  \/ Enter(1)
  \/ AcquireSend(1)
  \/ SendOnly(1)
  \/ SendQuery(1)
  \/ ReadDone(1)
  \/ ReadError(1)
  \/ Timeout(1)
  \/ DeviceSend(ArgVals)
  \/ Tick
  \/ Return

SpecCall == InitCall /\ [][NextCall]_vars

\* NThreads threads share a session that is connected: exchanges and
\* changes of the interval
InitCfg ==
  /\ port \in PortNames
  /\ last_port_name = port
  /\ cmd_term = DefaultCmdTerm
  /\ elapsed \in 0 .. MaxTerm
  /\ sinceTx = MaxTerm
  /\ rx = <<>>
  /\ m = NoOne
  /\ pc = [t \in Threads |-> "idle"]
  /\ call = [t \in Threads |-> NoCall]
  /\ slp = [t \in Threads |-> 0]
  /\ sent = [t \in Threads |-> FALSE]
  /\ tx = [t \in Threads |-> <<>>]
  /\ nr = [t \in Threads |-> 0]
  /\ old = [t \in Threads |-> NoTask]
  /\ rd = [c \in Ctxs |-> "none"]
  /\ task = [d \in Tasks |-> FreeTask]
  /\ fut = [f \in Futs |-> NoTask]
  /\ wire = HandshakeSend
  /\ res = NoRes
  /\ log_level = LOG_WARNING
  /\ log = <<>>
  /\ wireBy = NoOne
  /\ rxOf = <<>>

NextCfg ==
  \/ \E t \in Threads : Call(t, CfgCalls)
  \/ \E t \in Threads : AcquireSend(t)
  \/ \E t \in Threads : SendQuery(t)
  \/ \E t \in Threads : SendMeasure(t)
  \/ \E t \in Threads : AssignDone(t)
  \/ \E t \in Threads : SetCommandTerm(t)
  \/ \E d \in Tasks : TaskStart(d)
  \/ \E c \in Ctxs : ReadDone(c)
  \/ \E c \in Ctxs : ReadError(c)
  \/ \E c \in Ctxs : Timeout(c)
  \/ \E f \in Futs : FutureGet(f)
  \/ DeviceSend(ConcVals)
  \/ Tick
  \/ Return

SpecCfg == InitCfg /\ [][NextCfg]_vars

\* the session's logging: the threshold is set and the engine and the
\* transport log under it
NextLog ==
  \/ \E level \in LogLevels : SetLogLevel(level)
  \/ \E level \in LOG_DEBUG .. LOG_ERROR : EngineLog(level)
  \/ SerialLog

SpecLog == Init /\ [][NextLog]_vars

\* the calls of the caller that only measures positions
MeasureCalls ==
  {MkCall("MeasureCurrentPosition", 1, TRUE, 0, f, 5, "") : f \in Futs}

\* values the controller reports for a position
MeasureVals == {-3, 2}

\* one caller measures positions on a session that is connected
NextMeasure ==
  \/ Call(1, MeasureCalls)
  \/ AcquireSend(1)
  \/ SendMeasure(1)
  \/ AssignDone(1)
  \/ \E d \in Tasks : TaskStart(d)
  \/ \E c \in Ctxs : ReadDone(c)
  \/ \E c \in Ctxs : ReadError(c)
  \/ \E c \in Ctxs : Timeout(c)
  \/ \E f \in Futs : FutureGet(f)
  \/ DeviceSend(MeasureVals)
  \/ Tick
  \/ Return

\* What the program's threads do without being asked: a caller that has
\* the lock goes on, a task that was launched runs, the wait of
\* ListenUntil ends after its timeout, and a read whose delimiter has
\* arrived returns.  Nothing makes the controller send or the link fail.
FairMeasure ==
  /\ WF_vars(AcquireSend(1))
  /\ WF_vars(SendMeasure(1))
  /\ WF_vars(AssignDone(1))
  /\ WF_vars(\E d \in Tasks : TaskStart(d))
  /\ WF_vars(\E c \in Ctxs : ReadDone(c))
  /\ WF_vars(\E c \in Ctxs : Timeout(c))
  /\ WF_vars(Return)

SpecMeasure == InitCfg /\ [][NextMeasure]_vars /\ FairMeasure

\* the calls whose parse of the text read is followed
ParseCalls ==
  {MkCall(op, a, TRUE, 0, 0, 5, "") :
     op \in {"GetAxisStatus", "TellNumberOfSteps"}, a \in {1, 2}}

\* values the controller reports to them
ParseVals == {-3, 2}

\* What the streambuf of ListenUntil can hold when read_until returns for
\* call c: the lines the controller sent for the frame, one line, or two
\* that arrived together.
ParseInputs(c) ==
  LET lines == DevLines(Frame(c), ParseVals)
  IN {<<l>> : l \in lines} \cup {<<k, l>> : k \in lines, l \in lines}

\* A reply-expecting call on a connected session has written its frame
\* and waits in ListenUntil; the input its read is about to return has
\* arrived, the last line in answer to its frame.
InitParse ==
  /\ port \in PortNames
  /\ last_port_name = port
  /\ cmd_term = DefaultCmdTerm
  /\ elapsed = 0
  /\ sinceTx = 0
  /\ \E c \in ParseCalls :
       /\ call = [t \in Threads |-> IF t = 1 THEN c ELSE NoCall]
       /\ tx = [t \in Threads |-> IF t = 1 THEN <<Frame(c)>> ELSE <<>>]
       /\ wire = Frame(c)
       /\ rx \in ParseInputs(c)
  /\ rxOf = [i \in 1 .. Len(rx) |-> IF i = Len(rx) THEN 1 ELSE NoOne]
  /\ wireBy = 1
  /\ m = 1
  /\ pc = [t \in Threads |-> IF t = 1 THEN "wait" ELSE "idle"]
  /\ slp = [t \in Threads |-> 0]
  /\ sent = [t \in Threads |-> t = 1]
  /\ nr = [t \in Threads |-> IF t = 1 THEN 1 ELSE 0]
  /\ old = [t \in Threads |-> NoTask]
  /\ rd = [c \in Ctxs |-> IF c = 1 THEN "reading" ELSE "none"]
  /\ task = [d \in Tasks |-> FreeTask]
  /\ fut = [f \in Futs |-> NoTask]
  /\ res = NoRes
  /\ log_level = LOG_WARNING
  /\ log = <<>>

\* the read returns and the operation parses what it took
NextParse ==
  \/ ReadDone(1)
  \/ Return

SpecParse == InitParse /\ [][NextParse]_vars

(* ------------------------------- claims ------------------------------- *)

\* thread t puts bytes on the wire in this step: the Send of __SendCommand
\* or of the handshake returns a size above zero
Wrote(t) ==
  \/ /\ pc[t] = "sleep"
     /\ pc'[t] # "sleep"
     /\ tx'[t] # <<>> \/ (res' # NoRes /\ res'.tx # <<>>)
  \/ /\ pc[t] = "settle"
     /\ pc'[t] = "wait"
     /\ tx'[t] # <<>>

\* the deferred tasks that are inside their ListenUntil
Listening == {d \in Tasks : task[d].st \in {"read", "join"}}

\* the reply-expecting operations that parse an integer
IntegerOps == ReplyOps \ {"GetControllerFirmwareVersion"}

\* C1: the frame of a command operation is written only when no other
\* caller's exchange is open: no other thread is between its send and the
\* end of its read, and no position measurement another thread started is
\* inside its read.
C1_ExchangesDoNotInterleave ==
  [][\A t \in Threads :
       (Wrote(t) /\ call[t].op \notin ConnectOps) =>
         /\ \A u \in Threads \ {t} : pc[u] \notin {"settle", "wait", "join", "assign"}
         /\ \A d \in Listening : task[d].by = t]_vars

\* C2: every read on the channel runs while the session lock is held by
\* the call it belongs to, the read of the deferred position-measurement
\* task included, and there are never two reads pending at once.
C2_ReadsUnderTheLock ==
  /\ \A c \in Ctxs :
       rd[c] = "reading" =>
         m # NoOne /\ m = (IF c \in Threads THEN c ELSE task[TaskOf(c)].by)
  /\ Cardinality(Reading(rd)) <= 1

\* C3: an axis-addressed operation called with an axis other than 1 and 2
\* returns false in the step of the call, having written nothing and read
\* nothing, and the step leaves the stopwatch, the wire and the input as
\* they were; no such call ever gets past its check.
C3_InvalidAxisRejected ==
  [][/\ \A t \in Threads :
          call'[t].op \in AxisOps => call'[t].axis \in {1, 2}
     /\ (res' # NoRes /\ res'.call.op \in AxisOps /\ res'.call.axis \notin {1, 2})
          => /\ res'.ret = FALSE
             /\ res'.tx = <<>>
             /\ res'.nr = 0
             /\ res'.out = InitOut(res'.call)
             /\ UNCHANGED <<elapsed, sinceTx, rx, rd, wire, tx, nr, m, port>>]_vars

\* C3 witness: on an open port, an axis-addressed operation called with an
\* axis other than 1 and 2 has returned false
C3_Witness ==
  /\ res # NoRes
  /\ res.call.op \in AxisOps
  /\ res.call.axis \notin {1, 2}
  /\ res.ret = FALSE
  /\ port # NoPort

\* C4: a reply-expecting operation whose frame was written in full and
\* whose read timed out returns false.
C4_TimeoutReturnsFalse ==
  (res # NoRes /\ res.call.op \in ReplyOps /\ res.sent /\ res.lu = "timeout")
    => res.ret = FALSE

\* C5: once the wait of ListenUntil has timed out, the caller is not kept
\* waiting, with the session lock, for a read that is still blocked.
C5_TimeoutReleasesCaller ==
  \A t \in Threads :
    ~(pc[t] = "join" /\ m = t /\ rd[t] \in {"reading", "orphan"})

\* C6: a reply-expecting operation that received a reply it cannot parse
\* (no echo, no delimiter, or no integer between them) returns false.
C6_UnparsedReplyReturnsFalse ==
  ( /\ res # NoRes
    /\ res.call.op \in IntegerOps
    /\ res.lu = "true"
    /\ ~GetIntegerFromReturnValue(res.buf, Echo(res.call)).ok )
    => res.ret = FALSE

\* C7: an operation with an output parameter that returns false leaves
\* the caller's outputs as they were, and one that returns true read a
\* reply in that call.
C7_OutputOnlyOnSuccess ==
  (res # NoRes /\ res.call.op \in ReplyOps)
    => /\ res.ret = FALSE => res.out = InitOut(res.call)
       /\ res.ret = TRUE => res.lu = "true"

\* C8: the session lock is never held by a MeasureCurrentPosition call
\* that waits for the read of a deferred task to end.
C8_LockNotHeldAcrossMeasurement ==
  \A t \in Threads :
    ~(pc[t] = "assign" /\ m = t /\ old[t] \in Listening)

\* C9: no read stays blocked on a port that a disconnect has closed.
C9_DisconnectUnblocksReads ==
  \A c \in Ctxs : rd[c] # "orphan"

\* C10: whenever bytes are put on the wire, at least the configured
\* interval has passed since bytes were last put on the wire.
C10_FramesAreSpaced ==
  [][\A t \in Threads : Wrote(t) => sinceTx >= cmd_term]_vars

\* C11: a connect whose handshake read timed out returns false with the
\* port closed, and once the handshake wait has timed out the connect is
\* not kept waiting, port open, for a read that is still blocked.
C11_HandshakeTimeoutDisconnects ==
  /\ (res # NoRes /\ res.call.op \in ConnectOps /\ res.lu = "timeout")
       => (res.ret = FALSE /\ port = NoPort)
  /\ \A t \in Threads :
       ~(pc[t] = "join" /\ call[t].op \in ConnectOps /\ rd[t] = "reading")

C14_ErrorCodeOnlyFromReply ==
  (res # NoRes /\ res.call.op = "GetErrorOfPreviousCommand" /\ res.ret = TRUE)
    => /\ res.lu = "true"
       /\ GetIntegerFromReturnValue(res.buf, Echo(res.call)).ok
       /\ res.out.i = GetIntegerFromReturnValue(res.buf, Echo(res.call)).val

\* C15: SetStepAmplitude with an amplitude that is 0, below -50 or above
\* 50 returns false without a write or a read; with an amplitude of
\* magnitude 1..50 and axis 1 or 2 it makes one send and no read: at most
\* one write, which is the frame or its beginning, the whole frame
\* exactly when it returns true.
C15_AmplitudeChecked ==
  (res # NoRes /\ res.call.op = "SetStepAmplitude")
    => LET n == res.call.n
           frame == SU(res.call.axis)
                      \o (IF res.call.sign THEN <<>> ELSE <<"-">>)
                      \o (IF n < 0 THEN <<"-">> \o Dec(-n) ELSE Dec(n)) \o CRLF
       IN /\ (n = 0 \/ n < -50 \/ n > 50)
               => (res.ret = FALSE /\ res.tx = <<>> /\ res.nr = 0)
          /\ (n # 0 /\ n >= -50 /\ n <= 50 /\ res.call.axis \in {1, 2})
               => /\ res.nr = 0
                  /\ Len(res.tx) <= 1
                  /\ \A i \in 1 .. Len(res.tx) :
                       res.tx[i] = SubSeq(frame, 1, Len(res.tx[i]))
                  /\ res.ret = (res.tx = <<frame>>)

\* C15 witness: SetStepAmplitude at the limit of the range has written
\* its frame
C15_Witness ==
  /\ res # NoRes
  /\ res.call.op = "SetStepAmplitude"
  /\ res.call.n = -50
  /\ res.ret = TRUE
  /\ res.tx = <<Frame(res.call)>>

\* C16: RelativeMove(axis, false, n) with n > 0 and RelativeMove(axis,
\* true, -n), when their frame is written, write the same frame,
\* "<axis>PR-<n>" and the delimiter; the integer parsed from that frame
\* after the echo is negative with magnitude n.
C16_RelativeMoveSignEncoding ==
  (res # NoRes /\ res.call.op = "RelativeMove" /\ res.sent)
    => LET a == res.call.axis
           n == res.call.n
       IN /\ (~res.call.sign /\ n > 0)
               => /\ res.tx = <<PR(a) \o <<"-">> \o Dec(n) \o CRLF>>
                  /\ res.tx = <<Frame([res.call EXCEPT !.sign = TRUE, !.n = -n])>>
                  /\ LET p == GetIntegerFromReturnValue(res.tx[1], PR(a))
                     IN p.ok /\ p.val < 0 /\ -p.val = n
          /\ (res.call.sign /\ n < 0)
               => res.tx = <<PR(a) \o <<"-">> \o Dec(-n) \o CRLF>>

\* C16 witness: RelativeMove(1, false, 10) has written its frame
C16_Witness ==
  /\ res # NoRes
  /\ res.call.op = "RelativeMove"
  /\ res.call.axis = 1 /\ ~res.call.sign /\ res.call.n = 10
  /\ res.sent
  /\ res.tx = <<Frame(res.call)>>

\* C17: StartJogMotion(axis, s, v) with v > 0, when its frame is written,
\* writes the literal v when s is true and -v when s is false; GetJogMode
\* that read the echo followed by the literal of (s, v) hands back sign s
\* and speed v.
C17_JogSignRoundTrip ==
  /\ (res # NoRes /\ res.call.op = "StartJogMotion" /\ res.sent /\ res.call.n > 0)
       => res.tx = <<JA(res.call.axis)
                       \o (IF res.call.sign THEN <<>> ELSE <<"-">>)
                       \o Dec(res.call.n) \o CRLF>>
  /\ (res # NoRes /\ res.call.op = "GetJogMode" /\ res.lu = "true")
       => \A s \in BOOLEAN, v \in {n \in ArgVals : n > 0} :
            res.buf = JA(res.call.axis) \o (IF s THEN <<>> ELSE <<"-">>)
                        \o Dec(v) \o CRLF
              => (res.out.s = s /\ res.out.i = v)

\* C17 witness: GetJogMode has read a negative literal
C17_Witness ==
  /\ res # NoRes
  /\ res.call.op = "GetJogMode"
  /\ res.lu = "true"
  /\ res.buf = JA(res.call.axis) \o <<"-", "3">> \o CRLF
  /\ res.out.s = FALSE
  /\ res.out.i = 3

\* C18: GetAxisStatus(a, out) whose frame was written and which read the
\* line "<a>TS<n>" and the delimiter returns true with out = n.
C18_AxisStatusDecoded ==
  (res # NoRes /\ res.call.op = "GetAxisStatus" /\ res.sent /\ res.lu = "true")
    => \A n \in ArgVals :
         res.buf = TS(res.call.axis)
                     \o (IF n < 0 THEN <<"-">> \o Dec(-n) ELSE Dec(n)) \o CRLF
           => (res.ret = TRUE /\ res.out.i = n)

\* C18 witness: GetAxisStatus(1) has read "1TS2" and the delimiter
C18_Witness ==
  /\ res # NoRes
  /\ res.call.op = "GetAxisStatus"
  /\ res.call.axis = 1
  /\ res.buf = <<"1", "T", "S", "2">> \o CRLF
  /\ res.ret = TRUE
  /\ res.out.i = 2

\* C19: TellLimitStatus that read "PH<v>" and the delimiter with v in
\* 0..3 hands back axis1 = bit 0 of v and axis2 = bit 1 of v.
C19_LimitFlagsDecoded ==
  (res # NoRes /\ res.call.op = "TellLimitStatus" /\ res.lu = "true")
    => \A v \in 0 .. 3 :
         res.buf = PH \o Dec(v) \o CRLF
           => /\ res.out.a1 = (v % 2 = 1)
              /\ res.out.a2 = ((v \div 2) % 2 = 1)

\* C19 witness: TellLimitStatus has read the raw value 1
C19_Witness ==
  /\ res # NoRes
  /\ res.call.op = "TellLimitStatus"
  /\ res.buf = PH \o <<"1">> \o CRLF
  /\ res.out.a1 = TRUE
  /\ res.out.a2 = FALSE

\* C20: ChangeChannel with a channel below 0 or above 4 returns false
\* without a write or a read; with a channel in 0..4 it makes one send and
\* no read: at most one write, which is the "CC" frame of the channel or
\* its beginning, the whole frame exactly when it returns true.
C20_ChannelChecked ==
  (res # NoRes /\ res.call.op = "ChangeChannel")
    => LET n == res.call.n
       IN /\ (n < 0 \/ n > 4)
               => (res.ret = FALSE /\ res.tx = <<>> /\ res.nr = 0)
          /\ (n >= 0 /\ n <= 4)
               => LET frame == <<"C", "C">> \o channel_table(n) \o CRLF
                  IN /\ res.nr = 0
                     /\ Len(res.tx) <= 1
                     /\ \A i \in 1 .. Len(res.tx) :
                          res.tx[i] = SubSeq(frame, 1, Len(res.tx[i]))
                     /\ res.ret = (res.tx = <<frame>>)

\* C20 witness: ChangeChannel(4) has written its frame
C20_Witness ==
  /\ res # NoRes
  /\ res.call.op = "ChangeChannel"
  /\ res.call.n = 4
  /\ res.ret = TRUE
  /\ res.tx = <<Frame(res.call)>>

\* C21: the port changes only in a step of a ConnectDeviceUSB,
\* ConnectDeviceRS232 or DisconnectDevice call that is under way, and a
\* closed port is opened only by a connect call taking the lock; no step
\* of a command operation, of a read or of the controller changes it.
C21_PortChangesOnlyInConnectDisconnect ==
  [][/\ port' # port
          => \E t \in Threads :
               /\ call[t].op \in ConnectOps \cup {"DisconnectDevice"}
               /\ pc[t] # "idle"
               /\ pc'[t] # pc[t]
     /\ (port = NoPort /\ port' # NoPort)
          => \E t \in Threads :
               /\ call[t].op \in ConnectOps
               /\ pc[t] = "lock"
               /\ port' = call[t].name]_vars

\* C21 witness: a reply-expecting operation whose write failed and whose
\* read timed out has returned and the port is still open
C21_Witness ==
  /\ res # NoRes
  /\ res.call.op \in ReplyOps
  /\ res.sent = FALSE
  /\ res.lu = "timeout"
  /\ port # NoPort

C23_BufferOnlyOnTrue ==
  (res # NoRes)
    => /\ res.lu \in {"timeout", "false", "none"} => res.buf = <<>>
       /\ res.lu = "true" => Find(res.buf, CRLF) # Npos

\* C23 witness: a read has timed out and the buffer is empty
C23_Witness ==
  /\ res # NoRes
  /\ res.call.op \in ReplyOps
  /\ res.sent
  /\ res.lu = "timeout"
  /\ res.buf = <<>>

\* C24: GetPortName reads last_port_name_ only while no other thread
\* holds the session lock inside an operation that assigns it, and hands
\* back the string as it is.
C24_PortNameReadUnderLock ==
  (res # NoRes /\ res.call.op = "GetPortName")
    => /\ ~\E u \in Threads \ {res.t} :
            m = u /\ call[u].op \in ConnectOps \cup {"DisconnectDevice"}
       /\ res.name \in {last_port_name} \cup PortNames \cup {""}

\* C30: GetPortName called by the one thread of the session while no
\* port is open hands back the empty string.
C30_PortNameEmptyWhenDisconnected ==
  (res # NoRes /\ res.call.op = "GetPortName" /\ port = NoPort)
    => res.name = ""

\* C25: cmd_term_ does not change while an exchange is in flight: while a
\* caller is between its wait and its return, or while a frame that was
\* sent still has its read to come or pending.
C25_IntervalFixedDuringExchanges ==
  [][cmd_term' # cmd_term
       => /\ \A t \in Threads : pc[t] \in {"idle", "lock"}
          /\ \A c \in Ctxs : rd[c] = "none"
          /\ \A d \in Tasks : task[d].st \in {"free", "done"}]_vars

\* C26: a call of __Log is written exactly when its level is at or above
\* the threshold in the order DEBUG < INFO < WARNING < ERROR < NONE; under
\* the threshold NONE nothing is written, and a message of the transport
\* is written only under the threshold DEBUG.
C26_LogAtOrAboveThreshold ==
  \A i \in 1 .. Len(log) :
    /\ log[i].out <=> \E k \in 0 .. 4 : log[i].th + k = log[i].level
    /\ log[i].th = 4 => ~log[i].out
    /\ (log[i].from = "serial" /\ log[i].out) => log[i].th = 0

\* C26 witness: a message of the transport was written under DEBUG and a
\* message was held back under NONE
C26_Witness ==
  /\ \E i \in 1 .. Len(log) : log[i].from = "serial" /\ log[i].out
  /\ \E i \in 1 .. Len(log) : log[i].th = LOG_NONE /\ ~log[i].out

\* C27: a call of a connect or command operation makes at most one write
\* and at most one read, while it runs and when it has returned, whatever
\* the write, the read and the parse gave.
C27_NoRetry ==
  /\ \A t \in Threads : Len(tx[t]) <= 1 /\ nr[t] <= 1
  /\ res # NoRes => (Len(res.tx) <= 1 /\ res.nr <= 1)

\* C27 witness: a reply-expecting operation has returned after a short
\* write and a read that timed out, with one write and one read made
C27_Witness ==
  /\ res # NoRes
  /\ res.call.op \in ReplyOps
  /\ res.sent = FALSE
  /\ Len(res.tx) = 1
  /\ res.lu = "timeout"
  /\ res.nr = 1

\* C28: when __SendCommand has flushed and written on an open port, no
\* input received before the write is left to be read.
C28_StaleInputFlushedBeforeSend ==
  [][\A t \in Threads :
       (pc[t] = "sleep" /\ pc'[t] # "sleep" /\ port # NoPort)
         => rx' = <<>>]_vars

\* C29: GetStepAmplitudeSetting(a, sign) with a in {1, 2}, when its frame
\* is written, writes "<a>SU?" for sign true and "<a>SU-?" for sign
\* false, each with the delimiter; when it read the echo "<a>SU" followed
\* by an integer and the delimiter it hands back the absolute value of
\* that integer.
C29_AmplitudeQueryBySuffix ==
  (res # NoRes /\ res.call.op = "GetStepAmplitudeSetting")
    => /\ res.sent
            => res.tx = <<SU(res.call.axis)
                            \o (IF res.call.sign THEN <<"?">> ELSE <<"-", "?">>)
                            \o CRLF>>
       /\ res.lu = "true"
            => \A n \in ArgVals :
                 res.buf = SU(res.call.axis)
                             \o (IF n < 0 THEN <<"-">> \o Dec(-n) ELSE Dec(n))
                             \o CRLF
                   => res.out.i = (IF n < 0 THEN -n ELSE n)

\* C29 witness: GetStepAmplitudeSetting for the negative direction has
\* written its frame and read a negative integer
C29_Witness ==
  /\ res # NoRes
  /\ res.call.op = "GetStepAmplitudeSetting"
  /\ ~res.call.sign
  /\ res.sent
  /\ res.buf = SU(res.call.axis) \o <<"-", "3">> \o CRLF
  /\ res.out.i = 3

\* C31: a connect operation that returns false leaves no port open,
\* whichever step of Serial::Connect failed and whether or not a port
\* was open when it was called.
C31_FailedConnectLeavesNoPort ==
  (res # NoRes /\ res.call.op \in ConnectOps /\ res.ret = FALSE)
    => port = NoPort

\* C32: the step in which a MeasureCurrentPosition call ends its send
\* with the frame not written in full starts no deferred task: every
\* task slot that was free stays free and no read is started.
C32_NoReaderAfterFailedMeasure ==
  [][\A t \in Threads :
       ( /\ pc[t] = "sleep"
         /\ pc'[t] # "sleep"
         /\ call[t].op = "MeasureCurrentPosition"
         /\ ~sent'[t]
         /\ res' # NoRes => res'.ret = FALSE )
         => /\ \A d \in Tasks : task[d].st = "free" => task'[d].st = "free"
            /\ rd' = rd]_vars

\* C33: a deferred position measurement that was started always
\* resolves: its task comes to its end, with the reply's integer or
\* with 0.
C33_MeasurementResolves ==
  \A d \in Tasks : (task[d].st # "free") ~> (task[d].st = "done")

\* C34: a reply-expecting operation whose frame was not written in full
\* makes no ListenUntil call: it never waits in a read with the session
\* lock, and it returns false with no read made.
C34_FailedWriteSkipsRead ==
  /\ \A t \in Threads :
       (call[t].op \in ReplyOps /\ ~sent[t])
         => (pc[t] \notin {"wait", "join"} /\ nr[t] = 0)
  /\ (res # NoRes /\ res.call.op \in ReplyOps /\ Valid(res.call) /\ ~res.sent)
       => (res.ret = FALSE /\ res.nr = 0)

\* C35: when a reply-expecting operation hands back an integer it parsed
\* from the text its read returned, and when a deferred measurement ends
\* with a value, every line the read took answers the frame that this
\* same exchange wrote: none answers an earlier frame or the frame of
\* another caller or task.
C35_ReplyToOwnFrame ==
  [][/\ ( /\ res = NoRes
          /\ res' # NoRes
          /\ res'.call.op \in IntegerOps
          /\ res'.lu = "true"
          /\ GetIntegerFromReturnValue(res'.buf, Echo(res'.call)).ok )
          => \A i \in 1 .. Len(rxOf) : rxOf[i] = res'.t
     /\ \A d \in Tasks :
          (task[d].st = "read" /\ task'[d].st = "done" /\ task'[d].val # 0)
            => \A i \in 1 .. Len(rxOf) : rxOf[i] = TaskCtx(d)]_vars

\* the operations that take a sign flag and an integer
SignedOps == {"StartJogMotion", "MoveToLimit", "RelativeMove", "SetStepAmplitude"}

\* text that is a signed integer literal: at most one minus sign, then
\* one digit or more and nothing else
IsSignedInt(s) ==
  LET u == IF s # <<>> /\ Head(s) = "-" THEN Tail(s) ELSE s
  IN u # <<>> /\ \A i \in 1 .. Len(u) : IsDigit(u[i])

\* C36: the frame a signed-parameter operation has written in full is
\* the axis digit, the two letters of the verb, a signed integer literal
\* with at most one minus sign, and the delimiter, whatever the sign flag
\* and the integer passed.
C36_SignedFrameWellFormed ==
  (res # NoRes /\ res.call.op \in SignedOps /\ res.sent)
    => /\ Len(res.tx) = 1
       /\ LET f == res.tx[1]
          IN /\ Len(f) >= 6
             /\ f[1] = DigitChars[res.call.axis + 1]
             /\ SubSeq(f, Len(f) - 1, Len(f)) = CRLF
             /\ IsSignedInt(SubSeq(f, 4, Len(f) - 2))

\* AgilisPiezo::IsConnected: bool ret = GetControllerFirmwareVersion(&buf);
\* return ret; r is the GetControllerFirmwareVersion call that returned
IsConnected(r) == r.ret

\* C37: IsConnected, which is its GetControllerFirmwareVersion call,
\* returns true only when that call's read returned a text that ends with
\* the delimiter, returns false when no port is open, and has released
\* the session lock when it returns.
C37_IsConnectedOnlyAfterReply ==
  (res # NoRes /\ res.call.op = "GetControllerFirmwareVersion")
    => /\ IsConnected(res) => (res.lu = "true" /\ Find(res.buf, CRLF) # Npos)
       /\ port = NoPort => ~IsConnected(res)
       /\ m # res.t

\* C38: on the text a read returned, __GetIntegerFromReturnValue gives
\* true only when the echo is found before the first delimiter and the
\* text between them begins with an integer literal; and when the first
\* echo lies after the first delimiter it gives false and the operation's
\* output integer is as the caller passed it.
C38_ParseOnlyBetweenEchoAndDelimiter ==
  (res # NoRes /\ res.call.op \in IntegerOps /\ res.lu = "true")
    => LET command == Echo(res.call)
           begin == Find(res.buf, command)
           end == Find(res.buf, CRLF)
           p == GetIntegerFromReturnValue(res.buf, command)
       IN /\ p.ok
               => /\ begin # Npos /\ end # Npos
                  /\ begin + Len(command) <= end
                  /\ Stoi(SubSeq(res.buf, begin + Len(command) + 1, end)).ok
          /\ (begin # Npos /\ end # Npos /\ begin > end)
               => (~p.ok /\ res.out.i = res.call.i0)

=============================================================================
